---------------------------- MODULE Spec2Model ----------------------------
(***************************************************************************)
(* Plan lifecycle and buffer ownership of fftw3-rs (src/plan.rs,           *)
(* src/builder.rs).                                                        *)
(*                                                                         *)
(* Every thread of the program owns one Planner and builds one plan,       *)
(* either through the builder (Planner::c2c / c2r / r2c / inplace().c2c,   *)
(* then PlanMem::plan, giving a Planned) or through a convenience          *)
(* constructor of plan.rs (r2c_1d, c2r_1d, c2c_1d and the _prealloc        *)
(* variants, giving a Plan).  The native engine (ffi) is external: a       *)
(* plan-creation call returns a null or a valid resource, chosen           *)
(* nondeterministically.  lock::run is not part of the sources at hand and *)
(* is modelled from its documented contract (LockAcquire / LockRelease).   *)
(*                                                                         *)
(* Integer widths are scaled: uint has UintBits bits and i32 has I32Bits   *)
(* bits, so that lengths above the i32 maximum are within TLC's reach.     *)
(* The scaling keeps 2 * I32Max < 2^UintBits, as 2 * (2^31 - 1) < 2^64.    *)
(***************************************************************************)
EXTENDS Integers, FiniteSets, Sequences, TLC

\* ------------------------------------------------------------------ bounds
NThreads == 2
UintBits == 6
I32Bits  == 3
MaxLen   == 5

Threads    == 1..NThreads
SeqThreads == {1}
Lens       == 0..MaxLen
ConcLens   == {2}

Pow2(k) == 2 ^ k

UintMod == Pow2(UintBits)

\* 0x7F_FF_FF_FF, the largest i32, at the model's width.
I32Max == Pow2(I32Bits - 1) - 1

\* ------------------------------------------------------------ integer casts
\* uint arithmetic wraps modulo 2^UintBits.
WrapSub(a, b) == (a - b) % UintMod

WrapMul(a, b) == (a * b) % UintMod

\* `n as i32`: keep the low I32Bits bits, read as two's complement.
AsI32(x) ==
    LET m == x % Pow2(I32Bits)
    IN  IF m >= Pow2(I32Bits - 1) THEN m - Pow2(I32Bits) ELSE m

\* A Dim's uint field read by the engine as ptrdiff_t (same width, signed).
AsPtrdiff(x) == IF x >= Pow2(UintBits - 1) THEN x - UintMod ELSE x

\* ------------------------------------------------------------------ values
Rigors == {"Estimate", "Measure", "Patient", "Exhaustive"}

Directions == {"Forward", "Backward"}

NullPtr == <<0, "null">>

Unasked == <<0, "unasked">>

NoneView == <<0, "None">>

\* The address of thread t's input / output allocation.
Addr(t, which) == <<t, which>>

Buf(t, which, len) == [some |-> TRUE, addr |-> Addr(t, which), len |-> len]

None == [some |-> FALSE]

NoRec == [none |-> TRUE]

NoRaw == [state |-> "none", destroys |-> 0, in_ptr |-> NullPtr, out_ptr |-> NullPtr]

NoView == [in_ |-> Unasked, out |-> Unasked]

VARIABLES
    pc,         \* each thread's position
    planner,    \* each thread's Planner {rigor, wisdom_restriction, direction}
    mem,        \* the PlanMem a thread holds (builder), inside a Planned once planned
    plan,       \* the in_ / out / n of a convenience constructor, then of its Plan
    call,       \* the constructor call a thread made and its buffer lengths
    args,       \* what the native plan-creation entry point received
    nativeRes,  \* what the native plan-creation entry point returned
    raw,        \* the native plan resource behind a thread's RawPlan
    bufs,       \* the allocation state of a thread's input / output buffer
    view,       \* the last views input() / output() / execute() returned
    result,     \* how the constructor call ended
    hist,       \* history: lock acquired, executed, executed on a dead resource
    lock,       \* the holder of the process-wide construction lock (0: free)
    inNative    \* the threads inside a native plan-creation call

vars == <<pc, planner, mem, plan, call, args, nativeRes, raw, bufs, view,
          result, hist, lock, inNative>>

NoHist == [acquired |-> FALSE, executed |-> FALSE, execDead |-> FALSE]

\* Planner::new: forward transform, estimate rigor, no wisdom restriction.
PlannerNew == [rigor |-> "Estimate", wisdom_restriction |-> FALSE, direction |-> "Forward"]

Init ==
    /\ pc = [t \in Threads |-> "start"]
    /\ planner = [t \in Threads |-> PlannerNew]
    /\ mem = [t \in Threads |-> NoRec]
    /\ plan = [t \in Threads |-> NoRec]
    /\ call = [t \in Threads |-> NoRec]
    /\ args = [t \in Threads |-> NoRec]
    /\ nativeRes = [t \in Threads |-> "none"]
    /\ raw = [t \in Threads |-> NoRaw]
    /\ bufs = [t \in Threads |-> [in_ |-> "none", out |-> "none"]]
    /\ view = [t \in Threads |-> NoView]
    /\ result = [t \in Threads |-> "none"]
    /\ hist = [t \in Threads |-> NoHist]
    /\ lock = 0
    /\ inNative = {}

\* ------------------------------------------------------- Planner's setters
PlannerRigor(t, r) ==
    /\ pc[t] = "start"
    /\ planner' = [planner EXCEPT ![t].rigor = r]
    /\ UNCHANGED <<pc, mem, plan, call, args, nativeRes, raw, bufs, view,
                   result, hist, lock, inNative>>

PlannerWisdomRestriction(t, wisdom_only) ==
    /\ pc[t] = "start"
    /\ planner' = [planner EXCEPT ![t].wisdom_restriction = wisdom_only]
    /\ UNCHANGED <<pc, mem, plan, call, args, nativeRes, raw, bufs, view,
                   result, hist, lock, inNative>>

PlannerDirection(t, d) ==
    /\ pc[t] = "start"
    /\ planner' = [planner EXCEPT ![t].direction = d]
    /\ UNCHANGED <<pc, mem, plan, call, args, nativeRes, raw, bufs, view,
                   result, hist, lock, inNative>>

\* Rigor::flags | FFTW_WISDOM_ONLY: the flag bits as a set of flag names.
PlannerFlags(p) ==
    {p.rigor} \cup (IF p.wisdom_restriction THEN {"WISDOM_ONLY"} ELSE {})

PlannerDir(p) == IF p.direction = "Forward" THEN "FFTW_FORWARD" ELSE "FFTW_BACKWARD"



\* --------------------------------------------------------- fatal termination
\* A panic unwinds the thread: what it owns is dropped (its buffers are
\* released by the action that panics).
Panic(t) ==
    /\ pc' = [pc EXCEPT ![t] = "panicked"]
    /\ result' = [result EXCEPT ![t] = "panic"]
    /\ mem' = [mem EXCEPT ![t] = NoRec]
    /\ plan' = [plan EXCEPT ![t] = NoRec]

\* The buffers of b that are still allocated are released.
Released(b) ==
    [in_ |-> IF b.in_ = "live" THEN "freed" ELSE b.in_,
     out |-> IF b.out = "live" THEN "freed" ELSE b.out]

\* ------------------------------------------------------ builder: Planner::*
\* assert!(in_.len() <= 0x7F_FF_FF_FF); assert!(in_.len() <= out.len());
AssertC2C(i, o) == i <= I32Max /\ i <= o

\* assert!(in_.len() <= 0x7F_FF_FF_FF); assert!(in_.len() <= out.len() / 2 + 1);
AssertC2R(i, o) == i <= I32Max /\ i <= (o \div 2) + 1

\* assert!(in_.len() <= 0x7F_FF_FF_FF); assert!(in_.len() / 2 + 1 <= out.len());
AssertR2C(i, o) == i <= I32Max /\ (i \div 2) + 1 <= o

\* assert!(in_.len() <= 0x7F_FF_FF_FF);
AssertInPlace(i) == i <= I32Max

\* Dim.n of Planner::c2r: 2 * (in_.len() - 1), in uint arithmetic.
DimC2R(i) == WrapMul(2, WrapSub(i, 1))

\* The caller hands over its buffers; the asserts pass and a PlanMem is built
\* from a copy of the Planner, or they fail and the call panics.
Bind(t, op, kind, i, out, ok, n) ==
    /\ call' = [call EXCEPT ![t] = [api |-> "builder", op |-> op, kind |-> kind,
                                    inLen |-> i, out |-> out]]
    /\ IF ok
       THEN /\ mem' = [mem EXCEPT ![t] = [plan |-> planner[t], dims_n |-> n,
                                          in_ |-> Buf(t, "in", i), out |-> out,
                                          planner |-> kind]]
            /\ bufs' = [bufs EXCEPT ![t] = [in_ |-> "live",
                                            out |-> IF out.some THEN "live" ELSE "none"]]
            /\ pc' = [pc EXCEPT ![t] = "mem"]
            /\ UNCHANGED <<plan, result>>
       ELSE /\ Panic(t)
            /\ bufs' = [bufs EXCEPT ![t] = [in_ |-> "freed",
                                            out |-> IF out.some THEN "freed" ELSE "none"]]
    /\ UNCHANGED <<planner, args, nativeRes, raw, view, hist, lock, inNative>>

PlannerC2C(t, i, o) ==
    /\ pc[t] = "start"
    /\ Bind(t, "c2c", "c2c", i, Buf(t, "out", o), AssertC2C(i, o), i)

PlannerC2R(t, i, o) ==
    /\ pc[t] = "start"
    /\ Bind(t, "c2r", "c2r", i, Buf(t, "out", o), AssertC2R(i, o), DimC2R(i))

PlannerR2C(t, i, o) ==
    /\ pc[t] = "start"
    /\ Bind(t, "r2c", "r2c", i, Buf(t, "out", o), AssertR2C(i, o), i)

InPlacePlannerC2C(t, i) ==
    /\ pc[t] = "start"
    /\ Bind(t, "inplace.c2c", "c2c", i, None, AssertInPlace(i), i)

\* The caller lets a PlanMem go without planning it.
DropPlanMem(t) ==
    /\ pc[t] = "mem"
    /\ pc' = [pc EXCEPT ![t] = "done"]
    /\ mem' = [mem EXCEPT ![t] = NoRec]
    /\ bufs' = [bufs EXCEPT ![t] = [in_ |-> "freed",
                                    out |-> IF @.out = "live" THEN "freed" ELSE @.out]]
    /\ UNCHANGED <<planner, plan, call, args, nativeRes, raw, view, result, hist,
                   lock, inNative>>

\* PlanMem::plan up to its call of RawPlan::new: the addresses are taken, the
\* descriptor is Detailed with one axis (the only form a Planner builds).
PlanMemPlan(t) ==
    /\ pc[t] = "mem"
    /\ pc' = [pc EXCEPT ![t] = "lock_wait"]
    /\ UNCHANGED <<planner, mem, plan, call, args, nativeRes, raw, bufs, view,
                   result, hist, lock, inNative>>

\* ------------------------------------------- convenience constructors (plan.rs)
\* if oslice.len() < n / 2 + 1 { panic!(..) }, n = islice.len()
CheckR2C1d(i, o) == ~(o < (i \div 2) + 1)

\* Mutant of CheckC2R1d: the bound is taken against out.len() + 1, not against
\* out.len() / 2 + 1.
CheckC2R1dNoHalf(i, o) == ~(i > o + 1)

\* if islice.len() > n / 2 + 1 { panic!(..) }, n = oslice.len()
CheckC2R1d(i, o) == ~(i > (o \div 2) + 1)

\* if oslice.len() < n { panic!(..) }, n = islice.len()
CheckC2C1d(i, o) == ~(o < i)

Construct(t, op, kind, i, o, ok, n) ==
    /\ call' = [call EXCEPT ![t] = [api |-> "conv", op |-> op, kind |-> kind,
                                    inLen |-> i, out |-> Buf(t, "out", o)]]
    /\ IF ok
       THEN /\ plan' = [plan EXCEPT ![t] = [in_ |-> Buf(t, "in", i),
                                            out |-> Buf(t, "out", o), n |-> n]]
            /\ bufs' = [bufs EXCEPT ![t] = [in_ |-> "live", out |-> "live"]]
            /\ pc' = [pc EXCEPT ![t] = "lock_wait"]
            /\ UNCHANGED <<mem, result>>
       ELSE /\ Panic(t)
            /\ bufs' = [bufs EXCEPT ![t] = [in_ |-> "freed", out |-> "freed"]]
    /\ UNCHANGED <<planner, args, nativeRes, raw, view, hist, lock, inNative>>

R2C1dPrealloc(t, i, o) ==
    /\ pc[t] = "start"
    /\ Construct(t, "r2c_1d_prealloc", "r2c", i, o, CheckR2C1d(i, o), i)

C2R1dPrealloc(t, i, o) ==
    /\ pc[t] = "start"
    /\ Construct(t, "c2r_1d_prealloc", "c2r", i, o, CheckC2R1d(i, o), o)

C2C1dPrealloc(t, i, o) ==
    /\ pc[t] = "start"
    /\ Construct(t, "c2c_1d_prealloc", "c2c", i, o, CheckC2C1d(i, o), i)

\* FFTWVec::uninit(n), FFTWVec::uninit(n / 2 + 1), then r2c_1d_prealloc.
R2C1d(t, n) ==
    /\ pc[t] = "start"
    /\ LET i == n
           o == (n \div 2) + 1
       IN  Construct(t, "r2c_1d", "r2c", i, o, CheckR2C1d(i, o), i)

\* FFTWVec::uninit(n / 2 + 1), FFTWVec::uninit(n), then c2r_1d_prealloc.
C2R1d(t, n) ==
    /\ pc[t] = "start"
    /\ LET i == (n \div 2) + 1
           o == n
       IN  Construct(t, "c2r_1d", "c2r", i, o, CheckC2R1d(i, o), o)

\* FFTWVec::uninit(n) twice, then c2c_1d_prealloc.
C2C1d(t, n) ==
    /\ pc[t] = "start"
    /\ LET i == n
           o == n
       IN  Construct(t, "c2c_1d", "c2c", i, o, CheckC2C1d(i, o), i)

\* ------------------------------------------------------------- lock::run
\* lock::run(f) runs f holding the one process-wide lock: taken before f ...
LockAcquire(t) == lock = 0 /\ lock' = t

\* ... and given back when f has returned.
LockRelease(t) == lock' = IF lock = t THEN 0 ELSE lock

\* ------------------------------------------------------------ RawPlan::new
GuruEntry(kind) ==
    CASE kind = "c2c" -> "fftw_plan_guru64_dft"
      [] kind = "r2c" -> "fftw_plan_guru64_dft_r2c"
      [] kind = "c2r" -> "fftw_plan_guru64_dft_c2r"

BasicEntry(kind) ==
    CASE kind = "c2c" -> "fftw_plan_dft_1d"
      [] kind = "r2c" -> "fftw_plan_dft_r2c_1d"
      [] kind = "c2r" -> "fftw_plan_dft_c2r_1d"

\* The closure PlanMem::plan hands to RawPlan::new: (self.planner)(1, dims, 0,
\* [], in_ptr, out_ptr, dir, flags); out_ptr is in_ptr when self.out is None.
\* r2c and c2r drop the sign.
PlanMemClosure(m) ==
    [entry   |-> GuruEntry(m.planner),
     n       |-> AsPtrdiff(m.dims_n),
     in_ptr  |-> m.in_.addr,
     out_ptr |-> IF m.out.some THEN m.out.addr ELSE m.in_.addr,
     sign    |-> IF m.planner = "c2c" THEN PlannerDir(m.plan) ELSE "unused",
     flags   |-> PlannerFlags(m.plan)]

\* The closure of a convenience constructor: fftw_plan_dft*_1d(n as i32,
\* islice, oslice, [FFTW_FORWARD,] FFTW_ESTIMATE).
PlanClosure(kind, p) ==
    [entry   |-> BasicEntry(kind),
     n       |-> AsI32(p.n),
     in_ptr  |-> p.in_.addr,
     out_ptr |-> p.out.addr,
     sign    |-> IF kind = "c2c" THEN "FFTW_FORWARD" ELSE "unused",
     flags   |-> {"Estimate"}]

ClosureArgs(t) ==
    IF call[t].api = "builder" THEN PlanMemClosure(mem[t])
                               ELSE PlanClosure(call[t].kind, plan[t])

\* Mutant of RawPlanNewEnter: f is called directly, as new_unchecked's callers
\* would, without lock::run.
RawPlanNewEnterNoLock(t) ==
    /\ pc[t] = "lock_wait"
    /\ inNative' = inNative \cup {t}
    /\ args' = [args EXCEPT ![t] = ClosureArgs(t)]
    /\ pc' = [pc EXCEPT ![t] = "native"]
    /\ UNCHANGED <<planner, mem, plan, call, nativeRes, raw, bufs, view, result,
                   hist, lock>>

\* let plan = lock::run(f): the lock is taken and f enters the native engine.
RawPlanNewEnter(t) ==
    /\ pc[t] = "lock_wait"
    /\ LockAcquire(t)
    /\ inNative' = inNative \cup {t}
    /\ args' = [args EXCEPT ![t] = ClosureArgs(t)]
    /\ hist' = [hist EXCEPT ![t].acquired = TRUE]
    /\ pc' = [pc EXCEPT ![t] = "native"]
    /\ UNCHANGED <<planner, mem, plan, call, nativeRes, raw, bufs, view, result>>

\* Mutant of RawPlanNewExit: the null check sits inside the locked region and
\* its panic leaves the lock held.
RawPlanNewExitHold(t, res) ==
    /\ pc[t] = "native"
    /\ inNative' = inNative \ {t}
    /\ nativeRes' = [nativeRes EXCEPT ![t] = res]
    /\ raw' = [raw EXCEPT ![t] =
                  IF res = "valid"
                  THEN [state |-> "alive", destroys |-> 0,
                        in_ptr |-> args[t].in_ptr, out_ptr |-> args[t].out_ptr]
                  ELSE @]
    /\ IF res = "valid" THEN LockRelease(t) ELSE UNCHANGED lock
    /\ pc' = [pc EXCEPT ![t] = "new_check"]
    /\ UNCHANGED <<planner, mem, plan, call, args, bufs, view, result, hist>>

\* The native call returns a null or a valid resource, bound to the addresses
\* it was given; lock::run gives the lock back and returns the resource.
RawPlanNewExit(t, res) ==
    /\ pc[t] = "native"
    /\ inNative' = inNative \ {t}
    /\ nativeRes' = [nativeRes EXCEPT ![t] = res]
    /\ raw' = [raw EXCEPT ![t] =
                  IF res = "valid"
                  THEN [state |-> "alive", destroys |-> 0,
                        in_ptr |-> args[t].in_ptr, out_ptr |-> args[t].out_ptr]
                  ELSE @]
    /\ LockRelease(t)
    /\ pc' = [pc EXCEPT ![t] = "new_check"]
    /\ UNCHANGED <<planner, mem, plan, call, args, bufs, view, result, hist>>

\* if plan.is_null() { panic!(..) }  RawPlan { plan: plan }
RawPlanNewCheck(t) ==
    /\ pc[t] = "new_check"
    /\ IF nativeRes[t] = "null"
       THEN /\ Panic(t)
            /\ bufs' = [bufs EXCEPT ![t] = Released(@)]
       ELSE /\ pc' = [pc EXCEPT ![t] = "new_ok"]
            /\ UNCHANGED <<mem, plan, bufs, result>>
    /\ UNCHANGED <<planner, call, args, nativeRes, raw, view, hist, lock, inNative>>

\* PlanMem::plan after RawPlan::new: match plan { None => Err(self),
\* Some(p) => Ok(Planned { mem: self, plan: p }) }.  RawPlan::new returns only
\* a RawPlan that holds a resource.
PlanMemPlanMatch(t) ==
    /\ pc[t] = "new_ok"
    /\ call[t].api = "builder"
    /\ IF raw[t].state = "none"
       THEN /\ result' = [result EXCEPT ![t] = "Err"]
            /\ pc' = [pc EXCEPT ![t] = "mem"]
       ELSE /\ result' = [result EXCEPT ![t] = "Ok"]
            /\ pc' = [pc EXCEPT ![t] = "planned"]
    /\ UNCHANGED <<planner, mem, plan, call, args, nativeRes, raw, bufs, view,
                   hist, lock, inNative>>

\* Plan { raw: plan, in_: in_, out: out }
PlanWrap(t) ==
    /\ pc[t] = "new_ok"
    /\ call[t].api = "conv"
    /\ result' = [result EXCEPT ![t] = "Ok"]
    /\ pc' = [pc EXCEPT ![t] = "planned"]
    /\ UNCHANGED <<planner, mem, plan, call, args, nativeRes, raw, bufs, view,
                   hist, lock, inNative>>

\* ------------------------------------------------- RawPlan::execute and Drop
\* ffi::fftw_execute(self.plan)
RawPlanExecute(t) ==
    hist' = [hist EXCEPT ![t].executed = TRUE,
                         ![t].execDead = @ \/ raw[t].state # "alive"]

\* ffi::fftw_destroy_plan(self.plan)
RawPlanDrop(t) ==
    raw' = [raw EXCEPT ![t].state = "destroyed", ![t].destroys = @ + 1]

\* ------------------------------------------------------- Planned (builder)
PlannedInput(t) ==
    /\ pc[t] = "planned"
    /\ call[t].api = "builder"
    /\ view' = [view EXCEPT ![t].in_ = mem[t].in_.addr]
    /\ UNCHANGED <<pc, planner, mem, plan, call, args, nativeRes, raw, bufs,
                   result, hist, lock, inNative>>

\* Mutant of PlannedOutput: the view is taken over mem.in_.
PlannedOutputIn(t) ==
    /\ pc[t] = "planned"
    /\ call[t].api = "builder"
    /\ view' = [view EXCEPT ![t].out = mem[t].in_.addr]
    /\ UNCHANGED <<pc, planner, mem, plan, call, args, nativeRes, raw, bufs,
                   result, hist, lock, inNative>>

\* self.mem.out.as_mut().map(|o| &mut **o)
PlannedOutput(t) ==
    /\ pc[t] = "planned"
    /\ call[t].api = "builder"
    /\ view' = [view EXCEPT ![t].out = IF mem[t].out.some THEN mem[t].out.addr
                                                         ELSE NoneView]
    /\ UNCHANGED <<pc, planner, mem, plan, call, args, nativeRes, raw, bufs,
                   result, hist, lock, inNative>>

PlannedExecute(t) ==
    /\ pc[t] = "planned"
    /\ call[t].api = "builder"
    /\ RawPlanExecute(t)
    /\ UNCHANGED <<pc, planner, mem, plan, call, args, nativeRes, raw, bufs,
                   view, result, lock, inNative>>

\* A Planned leaves scope: its fields are dropped in declaration order, mem
\* (the PlanMem with its buffers) first ...
DropPlanned(t) ==
    /\ pc[t] = "planned"
    /\ call[t].api = "builder"
    /\ bufs' = [bufs EXCEPT ![t] = Released(@)]
    /\ pc' = [pc EXCEPT ![t] = "dropping"]
    /\ UNCHANGED <<planner, mem, plan, call, args, nativeRes, raw, view, result,
                   hist, lock, inNative>>

\* ... then plan, the RawPlan.
DropPlannedRaw(t) ==
    /\ pc[t] = "dropping"
    /\ call[t].api = "builder"
    /\ RawPlanDrop(t)
    /\ mem' = [mem EXCEPT ![t] = NoRec]
    /\ pc' = [pc EXCEPT ![t] = "done"]
    /\ UNCHANGED <<planner, plan, call, args, nativeRes, bufs, view, result,
                   hist, lock, inNative>>

\* ------------------------------------------------------------ Plan (plan.rs)
PlanInput(t) ==
    /\ pc[t] = "planned"
    /\ call[t].api = "conv"
    /\ view' = [view EXCEPT ![t].in_ = plan[t].in_.addr]
    /\ UNCHANGED <<pc, planner, mem, plan, call, args, nativeRes, raw, bufs,
                   result, hist, lock, inNative>>

\* self.raw.execute(); self.out.storage_slice()
PlanExecute(t) ==
    /\ pc[t] = "planned"
    /\ call[t].api = "conv"
    /\ RawPlanExecute(t)
    /\ view' = [view EXCEPT ![t].out = plan[t].out.addr]
    /\ UNCHANGED <<pc, planner, mem, plan, call, args, nativeRes, raw, bufs,
                   result, lock, inNative>>

\* Mutant of PlanTakeOut: out is moved out and the rest of self is forgotten,
\* not dropped.
PlanTakeOutForget(t) ==
    /\ pc[t] = "planned"
    /\ call[t].api = "conv"
    /\ bufs' = [bufs EXCEPT ![t].out = "caller"]
    /\ pc' = [pc EXCEPT ![t] = "dropping"]
    /\ UNCHANGED <<planner, mem, plan, call, args, nativeRes, raw, view, result,
                   hist, lock, inNative>>

\* take_out(self) -> Out { self.out }: out moves to the caller; the fields
\* left in self are dropped in declaration order, raw first ...
PlanTakeOut(t) ==
    /\ pc[t] = "planned"
    /\ call[t].api = "conv"
    /\ bufs' = [bufs EXCEPT ![t].out = "caller"]
    /\ RawPlanDrop(t)
    /\ pc' = [pc EXCEPT ![t] = "dropping"]
    /\ UNCHANGED <<planner, mem, plan, call, args, nativeRes, view, result, hist,
                   lock, inNative>>

\* take_in(self) -> In { self.in_ }
PlanTakeIn(t) ==
    /\ pc[t] = "planned"
    /\ call[t].api = "conv"
    /\ bufs' = [bufs EXCEPT ![t].in_ = "caller"]
    /\ RawPlanDrop(t)
    /\ pc' = [pc EXCEPT ![t] = "dropping"]
    /\ UNCHANGED <<planner, mem, plan, call, args, nativeRes, view, result, hist,
                   lock, inNative>>

\* A Plan leaves scope: raw is dropped first ...
DropPlan(t) ==
    /\ pc[t] = "planned"
    /\ call[t].api = "conv"
    /\ RawPlanDrop(t)
    /\ pc' = [pc EXCEPT ![t] = "dropping"]
    /\ UNCHANGED <<planner, mem, plan, call, args, nativeRes, bufs, view, result,
                   hist, lock, inNative>>

\* ... then the buffers still in the Plan, in_ and out.
DropPlanBuffers(t) ==
    /\ pc[t] = "dropping"
    /\ call[t].api = "conv"
    /\ bufs' = [bufs EXCEPT ![t] = Released(@)]
    /\ plan' = [plan EXCEPT ![t] = NoRec]
    /\ pc' = [pc EXCEPT ![t] = "done"]
    /\ UNCHANGED <<planner, mem, call, args, nativeRes, raw, view, result, hist,
                   lock, inNative>>

\* ---------------------------------------------------------- specifications
NativeResults == {"null", "valid"}

\* One thread, every operation, every buffer length up to MaxLen.
Next ==
    \E t \in SeqThreads :
        \/ \E r \in Rigors : PlannerRigor(t, r)
        \/ \E b \in BOOLEAN : PlannerWisdomRestriction(t, b)
        \/ \E d \in Directions : PlannerDirection(t, d)
        \/ \E i, o \in Lens : PlannerC2C(t, i, o)
        \/ \E i, o \in Lens : PlannerC2R(t, i, o)
        \/ \E i, o \in Lens : PlannerR2C(t, i, o)
        \/ \E i \in Lens : InPlacePlannerC2C(t, i)
        \/ DropPlanMem(t)
        \/ PlanMemPlan(t)
        \/ \E i, o \in Lens : R2C1dPrealloc(t, i, o)
        \/ \E i, o \in Lens : C2R1dPrealloc(t, i, o)
        \/ \E i, o \in Lens : C2C1dPrealloc(t, i, o)
        \/ \E n \in Lens : R2C1d(t, n)
        \/ \E n \in Lens : C2R1d(t, n)
        \/ \E n \in Lens : C2C1d(t, n)
        \/ RawPlanNewEnter(t)
        \/ \E res \in NativeResults : RawPlanNewExit(t, res)
        \/ RawPlanNewCheck(t)
        \/ PlanMemPlanMatch(t)
        \/ PlanWrap(t)
        \/ PlannedInput(t)
        \/ PlannedOutput(t)
        \/ PlannedExecute(t)
        \/ DropPlanned(t)
        \/ DropPlannedRaw(t)
        \/ PlanInput(t)
        \/ PlanExecute(t)
        \/ PlanTakeOut(t)
        \/ PlanTakeIn(t)
        \/ DropPlan(t)
        \/ DropPlanBuffers(t)

Spec == Init /\ [][Next]_vars

\* NThreads threads, each constructing one plan of a valid shape (default
\* Planner) and executing it.
ConcNext ==
    \E t \in Threads :
        \/ \E i, o \in ConcLens : PlannerC2C(t, i, o)
        \/ \E i, o \in ConcLens : PlannerC2R(t, i, o)
        \/ \E i, o \in ConcLens : PlannerR2C(t, i, o)
        \/ \E i \in ConcLens : InPlacePlannerC2C(t, i)
        \/ PlanMemPlan(t)
        \/ \E i, o \in ConcLens : R2C1dPrealloc(t, i, o)
        \/ \E i, o \in ConcLens : C2R1dPrealloc(t, i, o)
        \/ \E i, o \in ConcLens : C2C1dPrealloc(t, i, o)
        \/ \E n \in ConcLens : R2C1d(t, n)
        \/ \E n \in ConcLens : C2R1d(t, n)
        \/ \E n \in ConcLens : C2C1d(t, n)
        \/ RawPlanNewEnter(t)
        \/ \E res \in NativeResults : RawPlanNewExit(t, res)
        \/ RawPlanNewCheck(t)
        \/ PlanMemPlanMatch(t)
        \/ PlanWrap(t)
        \/ PlannedExecute(t)
        \/ PlanExecute(t)

ConcSpec == Init /\ [][ConcNext]_vars

\* A thread waiting for the lock takes it once it stays free, every native
\* planning call returns, and a thread back from lock::run goes on.
Fairness ==
    \A t \in Threads :
        /\ WF_vars(RawPlanNewEnter(t))
        /\ WF_vars(\E res \in NativeResults : RawPlanNewExit(t, res))
        /\ WF_vars(RawPlanNewCheck(t))
        /\ WF_vars(PlanMemPlanMatch(t) \/ PlanWrap(t))

\* The threads of the liveness specification: one builder and one convenience
\* constructor per thread to choose from, out of place and in place, the
\* three transform kinds among them.
LiveNext ==
    \E t \in Threads :
        \/ \E i, o \in ConcLens : PlannerC2R(t, i, o)
        \/ \E i \in ConcLens : InPlacePlannerC2C(t, i)
        \/ PlanMemPlan(t)
        \/ \E i, o \in ConcLens : R2C1dPrealloc(t, i, o)
        \/ \E n \in ConcLens : C2C1d(t, n)
        \/ RawPlanNewEnter(t)
        \/ \E res \in NativeResults : RawPlanNewExit(t, res)
        \/ RawPlanNewCheck(t)
        \/ PlanMemPlanMatch(t)
        \/ PlanWrap(t)
        \/ PlannedExecute(t)
        \/ PlanExecute(t)

LiveSpec == Init /\ [][LiveNext]_vars /\ Fairness

\* ------------------------------------------------------------------ claims
HasCall(t) == call[t] # NoRec

\* The output length a call's transform writes to: the input's when in place.
OutLen(c) == IF c.out.some THEN c.out.len ELSE c.inLen

\* The buffer-length relationship of a call's transform kind is violated.
LenViolated(c) ==
    /\ c.out.some
    /\ CASE c.kind = "c2c" -> c.inLen > c.out.len
         [] c.kind = "r2c" -> (c.inLen \div 2) + 1 > c.out.len
         [] c.kind = "c2r" -> c.inLen > (c.out.len \div 2) + 1

\* The native call of thread t's plan() returned null and RawPlan::new is over.
NullReturned(t) ==
    /\ HasCall(t)
    /\ call[t].api = "builder"
    /\ nativeRes[t] = "null"
    /\ pc[t] # "new_check"

\* C1: when the native plan-creation entry point returns null during plan(),
\* plan() ends with Err carrying the original bound configuration (same rigor,
\* direction, wisdom_restriction, descriptor, input and output buffer), and
\* never with a panic.
C1_NullGivesErr ==
    \A t \in Threads :
        NullReturned(t) =>
            /\ result[t] = "Err"
            /\ pc[t] # "panicked"
            /\ mem[t] # NoRec
            /\ mem[t].plan = planner[t]
            /\ mem[t].in_ = Buf(t, "in", call[t].inLen)
            /\ mem[t].out = call[t].out

\* C2: at most one native plan-creation call is in progress at any moment,
\* whatever the transform kind and the constructor.
C2_OneNativeCall == Cardinality(inNative) <= 1

\* A builder plan is inside the native call while a convenience constructor
\* of another thread waits for the lock (or the other way round).
C2_Witness ==
    \E t, u \in Threads :
        /\ t \in inNative
        /\ pc[u] = "lock_wait"
        /\ call[t].api # call[u].api

\* C3: every native resource of a successful creation is destroyed exactly
\* once (not zero times once its owner is released, never twice), execute is
\* never invoked on a destroyed resource, and take_in / take_out destroy it.
C3_DestroyedOnce ==
    \A t \in Threads :
        /\ raw[t].destroys <= 1
        /\ (raw[t].state = "destroyed") = (raw[t].destroys = 1)
        /\ (pc[t] = "done" /\ nativeRes[t] = "valid") => raw[t].destroys = 1
        /\ ("caller" \in {bufs[t].in_, bufs[t].out}) => raw[t].destroys = 1
        /\ ~hist[t].execDead

\* A plan was executed, then take_out consumed it, and the thread is done.
C3_Witness ==
    \E t \in Threads :
        /\ pc[t] = "done"
        /\ hist[t].executed
        /\ bufs[t].out = "caller"
        /\ raw[t].destroys = 1

\* C4: when the buffer-length relationship of the transform kind is violated,
\* the builder's and the convenience constructors' call panics, the native
\* plan-creation entry point is never invoked and the lock is never acquired.
C4_ViolationIsFatal ==
    \A t \in Threads :
        (HasCall(t) /\ LenViolated(call[t])) =>
            /\ pc[t] = "panicked"
            /\ result[t] = "panic"
            /\ args[t] = NoRec
            /\ nativeRes[t] = "none"
            /\ ~hist[t].acquired
            /\ lock # t

\* A convenience c2r constructor was given an input longer than out/2 + 1.
C4_Witness ==
    \E t \in Threads :
        /\ HasCall(t)
        /\ LenViolated(call[t])
        /\ call[t].op = "c2r_1d_prealloc"
        /\ pc[t] = "panicked"

Finished == {"planned", "panicked"}

\* C5: every thread that starts a construction finishes it (every native call
\* returning, null or valid); the lock is held only while a native planning
\* call runs; executing a finalized plan never touches the lock.
C5_AllFinish ==
    /\ \A t \in Threads : (pc[t] = "lock_wait") ~> (pc[t] \in Finished)
    /\ [](lock # 0 => lock \in inNative)
    /\ [][\A t \in Threads :
            hist'[t].executed # hist[t].executed => lock' = lock]_vars

\* Every thread went through the lock and finished, one on a null resource,
\* one with a plan it has executed.
C5_Witness ==
    /\ \A t \in Threads : pc[t] \in Finished /\ hist[t].acquired
    /\ \E t \in Threads : nativeRes[t] = "null"
    /\ \E t \in Threads : nativeRes[t] = "valid" /\ hist[t].executed

\* Thread t holds a finalized plan, has executed it and asked for the output.
OutputAsked(t) ==
    /\ pc[t] = "planned"
    /\ hist[t].executed
    /\ view[t].out # Unasked

\* C6, as stated: executing a finalized plan and asking for the output yields
\* a view over the plan's output storage; for an in-place plan that view
\* exists and is over the same storage as the input view.
C6_Original ==
    \A t \in Threads :
        OutputAsked(t) =>
            /\ view[t].out = raw[t].out_ptr
            /\ (~call[t].out.some /\ view[t].in_ # Unasked) => view[t].out = view[t].in_

\* C6, amended: with a separate output buffer the view is over the plan's
\* output storage; for an in-place plan output() yields no view (None), and
\* the storage the engine writes to is the one input() views.
C6_Amended ==
    \A t \in Threads :
        OutputAsked(t) =>
            IF call[t].out.some
            THEN /\ view[t].out = raw[t].out_ptr
                 /\ view[t].out = Addr(t, "out")
                 /\ bufs[t].out = "live"
            ELSE /\ view[t].out = NoneView
                 /\ raw[t].out_ptr = raw[t].in_ptr
                 /\ view[t].in_ # Unasked => view[t].in_ = raw[t].out_ptr

\* An in-place plan was executed; output() gave None and input() the storage.
C6_Witness ==
    \E t \in Threads :
        /\ OutputAsked(t)
        /\ call[t].op = "inplace.c2c"
        /\ view[t].out = NoneView
        /\ view[t].in_ = raw[t].out_ptr

\* C7: after plan() fails with a construction failure the caller holds the
\* configuration again, on the same still allocated buffers, and can plan anew.
C7_RetryPossible ==
    \A t \in Threads :
        NullReturned(t) =>
            /\ pc[t] = "mem"
            /\ bufs[t].in_ = "live"
            /\ call[t].out.some => bufs[t].out = "live"

\* C8: while a native resource exists, the addresses bound into it are those of
\* buffers still owned by the plan object and still allocated; the output
\* address is the input address exactly when no output buffer was supplied.
C8_BoundBuffersLive ==
    \A t \in Threads :
        raw[t].state = "alive" =>
            /\ raw[t].in_ptr = Addr(t, "in")
            /\ bufs[t].in_ = "live"
            /\ (raw[t].out_ptr = raw[t].in_ptr) = ~call[t].out.some
            /\ call[t].out.some =>
                   (raw[t].out_ptr = Addr(t, "out") /\ bufs[t].out = "live")

\* The transform length a call's buffers give, as a mathematical integer.
TransformLen(c) ==
    CASE c.kind = "c2c" -> c.inLen
      [] c.kind = "r2c" -> c.inLen
      [] c.kind = "c2r" /\ c.api = "builder" -> 2 * (c.inLen - 1)
      [] c.kind = "c2r" /\ c.api = "conv" -> c.out.len

\* C9: on every plan-creation path the native engine is only called with a
\* transform length of at most 2^31-1, and receives exactly that length.
C9_LengthNotTruncated ==
    \A t \in Threads :
        args[t] # NoRec =>
            /\ TransformLen(call[t]) <= I32Max
            /\ args[t].n = TransformLen(call[t])

\* C10: for every plan that passes its precondition checks, the length n
\* handed to the native engine is not negative and keeps the engine inside the
\* buffers.  Stated for buffers no longer than the largest i32, where no cast
\* truncates: the claim fails there already.
C10_EngineInsideBuffers ==
    \A t \in Threads :
        (args[t] # NoRec /\ call[t].inLen <= I32Max /\ OutLen(call[t]) <= I32Max) =>
            LET n  == args[t].n
                il == call[t].inLen
                ol == OutLen(call[t])
            IN  /\ n >= 0
                /\ CASE call[t].kind = "c2c" -> n <= il /\ n <= ol
                     [] call[t].kind = "r2c" -> n <= il /\ (n \div 2) + 1 <= ol
                     [] call[t].kind = "c2r" -> (n \div 2) + 1 <= il /\ n <= ol

=============================================================================
